---- MODULE Spec2Model ----
(***************************************************************************)
(* Model of the NTU security-scan orchestrator (src/index.js) and of the   *)
(* scanner adapters it drives (src/scanners/trivy.js,                      *)
(* src/scanners/config.js, src/unnamed/part_002).                          *)
(*                                                                         *)
(*   Spec          one run(): register, install, scan, display, write      *)
(*                 outputs, post the comment, decide.                      *)
(*   SpecParse     TrivyScanner.parseResults applied to bounded reports.   *)
(*   SpecConfigParse  ConfigScanner.parseResults applied to bounded        *)
(*                 reports.                                                *)
(*   SpecSecret    the filters of SecretDetectorScanner.scan applied to    *)
(*                 bounded gitleaks reports.                               *)
(*   SpecSbom      one CdxgenScanner.scan call (src/test-local.js).        *)
(*   SpecAggregate aggregateResults applied to bounded finding sets.       *)
(***************************************************************************)
EXTENDS Integers, Sequences, FiniteSets, TLC

(***************************************************************************)
(* Bounds of the model.                                                    *)
(***************************************************************************)
\* scanners registered in one run
MaxScanners == 2
\* entries of the Results array of a parsed report (SpecParse)
MaxParseResults == 2
\* entries of one Vulnerabilities array (SpecParse)
MaxParseVulns == 1
\* largest counter value of a drawn finding set (SpecAggregate)
MaxCount == 1
\* longest findings list of a drawn finding set (SpecAggregate)
MaxFindings == 1
\* findings of a drawn gitleaks report (SpecSecret)
MaxSecretFindings == 2

VARIABLES
    pc,          \* position of run() / of the function under test
    scanners,    \* this.scanners: the registered adapters, in order
    idx,         \* loop position of initializeScanners / runScans (1-based)
    binaryPath,  \* per adapter singleton: TRUE when this.binaryPath is set
    results,     \* this.results: the consolidated report
    apc,         \* position inside the scan() call in flight ("idle" if none)
    target,      \* whether config.scanTarget exists, as seen by the scan in flight
    tmpFile,     \* content of the JSON report file of the scan in flight
                 \* (target, tmpFile and toolCalls belong to the call in
                 \* flight and are reset when runScans takes its outcome)
    rulesFile,   \* whether the secret adapter's temporary rules file exists
    toolCalls,   \* external tool invocations made by the scan in flight
    gitleaksExit, \* exit code of gitleaks in the scan in flight (<<>> if none)
    sbom,        \* the CdxgenScanner.scan call in flight (SpecSbom)
    execThrew,   \* whether the tool invocation of the scan in flight threw
    apiCall,     \* the forwarding of findings by the secret scan in flight
    ret,         \* outcome handed back by the scan in flight
    installLog,  \* history: outcome of install() per registered scanner
    scanLog,     \* history: <<event, k>> for every scan() start / return / fail
    outputs,     \* the two artifacts written by setOutputs
    comment,     \* outcome of postMRComment
    policy,      \* exit-code input as read by shouldFail
    exitCode     \* process exit code (0 until process.exit(1))

vars == <<pc, scanners, idx, binaryPath, results, apc, target, tmpFile,
          rulesFile, toolCalls, gitleaksExit, sbom, execThrew, apiCall, ret,
          installLog, scanLog, outputs, comment, policy, exitCode>>

(***************************************************************************)
(* Data shapes.                                                            *)
(***************************************************************************)
Adapters == {"trivy", "secret", "config"}

CounterFields == {"total", "critical", "high", "medium", "low"}

\* JavaScript's undefined, for a property a JSON object does not carry
Undefined == "undefined"

\* severity strings a tool report may carry
SevStrings == {"CRITICAL", "HIGH", "MEDIUM", "LOW", "Critical", Undefined}

\* a Vulnerabilities / Misconfigurations entry that is JSON null
NullEntry == "null"

\* constructor(): this.results
EmptyResults ==
    [total |-> 0, critical |-> 0, high |-> 0, medium |-> 0, low |-> 0,
     scannerResults |-> <<>>]

\* a report file: absent, empty, not JSON, or a JSON object with (or
\* without) a Results array; each result has (or has not) a Target and an
\* items array (Vulnerabilities / Misconfigurations)
NoFile == [st |-> "absent", hasResults |-> FALSE, Results |-> <<>>]
EmptyFile == [st |-> "empty", hasResults |-> FALSE, Results |-> <<>>]
InvalidFile == [st |-> "invalid", hasResults |-> FALSE, Results |-> <<>>]
JsonNoResults == [st |-> "json", hasResults |-> FALSE, Results |-> <<>>]
JsonReport(rs) == [st |-> "json", hasResults |-> TRUE, Results |-> rs]
ResultEntry(t, has, items) == [Target |-> t, hasItems |-> has, items |-> items]

SeqsUpTo(S, n) == UNION {[1..m -> S] : m \in 0..n}

\* the items of every result of a report, in order: the findings a pass
\* over data.Results meets
RECURSIVE AllItems(_)
AllItems(rs) ==
    IF rs = <<>> THEN <<>>
    ELSE (IF Head(rs).hasItems THEN Head(rs).items ELSE <<>>) \o AllItems(Tail(rs))

\* no CdxgenScanner.scan call
NoSbom == [at |-> "none"]

\* sendSecretsToApi has not been called
NoApiCall == [made |-> FALSE]

\* what a call hands back: nothing yet, a value, or a thrown error
NoRet == [kind |-> "none"]
Returned(v) == [kind |-> "value", value |-> v]
Threw(msg) == [kind |-> "error", error |-> msg]

(***************************************************************************)
(* TrivyScanner.parseResults (src/scanners/trivy.js).                      *)
(***************************************************************************)
\* the empty set returned for a missing, empty or unparsable file
TrivyEmptySet ==
    [total |-> 0, critical |-> 0, high |-> 0, medium |-> 0, low |-> 0,
     vulnerabilities |-> <<>>]

\* Mutant of the severity switch: compares case-insensitively.
TrivySeverityBucketAnyCase(sev) ==
    IF sev \in {"CRITICAL", "Critical"} THEN "critical"
    ELSE IF sev = "HIGH" THEN "high"
    ELSE IF sev = "MEDIUM" THEN "medium"
    ELSE IF sev = "LOW" THEN "low"
    ELSE "none"

\* switch (vuln.Severity): the counter a severity string increments
TrivySeverityBucket(sev) ==
    IF sev = "CRITICAL" THEN "critical"
    ELSE IF sev = "HIGH" THEN "high"
    ELSE IF sev = "MEDIUM" THEN "medium"
    ELSE IF sev = "LOW" THEN "low"
    ELSE "none"

\* the accumulators of parseResults before the loops
TrivyAcc0 ==
    [critical |-> 0, high |-> 0, medium |-> 0, low |-> 0,
     vulnerabilities |-> <<>>, threw |-> FALSE]

\* Mutant of the forEach body: keeps only the findings it counts.
TrivyVisitVulnDropsUnranked(acc, vuln) ==
    IF acc.threw THEN acc
    ELSE IF vuln = NullEntry THEN [acc EXCEPT !.threw = TRUE]
    ELSE LET b == TrivySeverityBucket(vuln)
         IN  IF b = "none" THEN acc
             ELSE [acc EXCEPT ![b] = @ + 1,
                              !.vulnerabilities = Append(@, [severity |-> vuln])]

\* one pass of result.Vulnerabilities.forEach: push the finding, then count
\* it; reading a property of a null entry throws
TrivyVisitVuln(acc, vuln) ==
    IF acc.threw THEN acc
    ELSE IF vuln = NullEntry THEN [acc EXCEPT !.threw = TRUE]
    ELSE LET pushed == [acc EXCEPT !.vulnerabilities =
                                     Append(@, [severity |-> vuln])]
             b == TrivySeverityBucket(vuln)
         IN  IF b = "none" THEN pushed ELSE [pushed EXCEPT ![b] = @ + 1]

RECURSIVE TrivyVisitVulns(_, _)
TrivyVisitVulns(acc, vulns) ==
    IF vulns = <<>> THEN acc
    ELSE TrivyVisitVulns(TrivyVisitVuln(acc, Head(vulns)), Tail(vulns))

\* data.Results.forEach
RECURSIVE TrivyVisitResults(_, _)
TrivyVisitResults(acc, rs) ==
    IF rs = <<>> THEN acc
    ELSE TrivyVisitResults(
             IF Head(rs).hasItems THEN TrivyVisitVulns(acc, Head(rs).items)
                                  ELSE acc,
             Tail(rs))

\* const totalCount = criticalCount + highCount + mediumCount + lowCount
TrivyTotalCount(acc) == acc.critical + acc.high + acc.medium + acc.low

\* parseResults(jsonPath) on a file with content f
TrivyParseResults(f) ==
    IF f.st \in {"absent", "empty", "invalid"} THEN TrivyEmptySet
    ELSE LET acc == IF f.hasResults THEN TrivyVisitResults(TrivyAcc0, f.Results)
                                    ELSE TrivyAcc0
         IN  IF acc.threw THEN TrivyEmptySet
             ELSE [total |-> TrivyTotalCount(acc),
                   critical |-> acc.critical, high |-> acc.high,
                   medium |-> acc.medium, low |-> acc.low,
                   vulnerabilities |-> acc.vulnerabilities]

(***************************************************************************)
(* ConfigScanner.parseResults (src/scanners/config.js).                    *)
(***************************************************************************)
ConfigEmptySet ==
    [total |-> 0, totalFiles |-> 0, files |-> <<>>,
     critical |-> 0, high |-> 0, medium |-> 0, low |-> 0,
     misconfigurations |-> <<>>]

\* String.prototype.toUpperCase on the severity strings of the model
ToUpperCase(s) == IF s = "Critical" THEN "CRITICAL" ELSE s

\* switch (severity) of ConfigScanner.parseResults
ConfigSeverityBucket(severity) ==
    IF severity = "CRITICAL" THEN "critical"
    ELSE IF severity = "HIGH" THEN "high"
    ELSE IF severity = "MEDIUM" THEN "medium"
    ELSE IF severity = "LOW" THEN "low"
    ELSE "none"

ConfigAcc0 ==
    [critical |-> 0, high |-> 0, medium |-> 0, low |-> 0, total |-> 0,
     files |-> <<>>, misconfigurations |-> <<>>, threw |-> FALSE]

\* one pass of result.Misconfigurations.forEach
ConfigVisitMisconfiguration(acc, m) ==
    IF acc.threw THEN acc
    ELSE IF m = NullEntry THEN [acc EXCEPT !.threw = TRUE]
    ELSE LET severity == IF m = Undefined THEN Undefined ELSE ToUpperCase(m)
             b == ConfigSeverityBucket(severity)
             counted == IF b = "none" THEN acc ELSE [acc EXCEPT ![b] = @ + 1]
         IN  [counted EXCEPT
                 !.total = @ + 1,
                 !.misconfigurations =
                     Append(@, [Severity |-> IF severity = Undefined
                                             THEN "UNKNOWN" ELSE severity])]

RECURSIVE ConfigVisitMisconfigurations(_, _)
ConfigVisitMisconfigurations(acc, ms) ==
    IF ms = <<>> THEN acc
    ELSE ConfigVisitMisconfigurations(
             ConfigVisitMisconfiguration(acc, Head(ms)), Tail(ms))

\* data.Results.forEach: collect the target, then count its misconfigurations
RECURSIVE ConfigVisitResults(_, _)
ConfigVisitResults(acc, rs) ==
    IF rs = <<>> THEN acc
    ELSE LET r == Head(rs)
             withFile == IF r.Target /\ ~acc.threw
                         THEN [acc EXCEPT !.files = Append(@, "target")]
                         ELSE acc
         IN  ConfigVisitResults(
                 IF r.hasItems
                 THEN ConfigVisitMisconfigurations(withFile, r.items)
                 ELSE withFile,
                 Tail(rs))

\* parseResults(jsonPath) on a file with content f
ConfigParseResults(f) ==
    IF f.st = "absent" THEN ConfigEmptySet
    ELSE IF f.st \in {"empty", "invalid"} THEN ConfigEmptySet
    ELSE LET acc == IF f.hasResults THEN ConfigVisitResults(ConfigAcc0, f.Results)
                                    ELSE ConfigAcc0
         IN  IF acc.threw THEN ConfigEmptySet
             ELSE [total |-> Len(acc.files), totalFiles |-> Len(acc.files),
                   files |-> acc.files,
                   critical |-> acc.critical, high |-> acc.high,
                   medium |-> acc.medium, low |-> acc.low,
                   misconfigurations |-> acc.misconfigurations]

(***************************************************************************)
(* SecretDetectorScanner (src/unnamed/part_002).                           *)
(***************************************************************************)
skipFiles ==
    {"package.json", "package-lock.json", "pom.xml", "build.gradle",
     "requirements.txt", "README.md", ".gitignore"}

\* path.basename(item.File): the last segment of the path
Basename(file) == IF file = <<>> THEN "" ELSE file[Len(file)]

\* item.File.includes('node_modules'), on the path segments of the model
IncludesNodeModules(file) ==
    \E i \in 1..Len(file) : file[i] \in {"node_modules", "old_node_modules"}

UpperClass == {"A", "B", "0", "_"}

\* /["']?\$\{?[A-Z0-9_]+\}?["']?/.test(item.Match): the expression is not
\* anchored, so it matches when a "$" anywhere in the text is followed by
\* an optional "{" and one character of [A-Z0-9_]
PlaceholderTest(match) ==
    \E i \in 1..Len(match) :
        /\ match[i] = "$"
        /\ \/ (i + 1 <= Len(match) /\ match[i + 1] \in UpperClass)
           \/ (i + 2 <= Len(match) /\ match[i + 1] = "{"
                                   /\ match[i + 2] \in UpperClass)

\* the predicate of result.filter(...)
SecretKept(item) ==
    /\ Basename(item.File) \notin skipFiles
    /\ ~IncludesNodeModules(item.File)
    /\ ~PlaceholderTest(item.Match)

RECURSIVE SecretFilter(_)
SecretFilter(items) ==
    IF items = <<>> THEN <<>>
    ELSE (IF SecretKept(Head(items)) THEN <<Head(items)>> ELSE <<>>)
             \o SecretFilter(Tail(items))

\* filtered.map(item => ({..., File: `//////${item.File}`, Match, ...}))
SecretMapItem(item) ==
    [File |-> <<"", "", "", "", "", "">> \o item.File, Match |-> item.Match]

SecretMap(items) == [i \in 1..Len(items) |-> SecretMapItem(items[i])]

\* Mutant of the returned set: total counts every reported finding.
SecretSetCountsReported(report) ==
    LET filteredSecrets == SecretMap(SecretFilter(report))
    IN  [total |-> Len(report),
         critical |-> 0, high |-> 0, medium |-> 0, low |-> 0,
         vulnerabilities |-> filteredSecrets, secrets |-> filteredSecrets]

\* the set scan() returns for the parsed report (an array of findings)
SecretSet(report) ==
    LET filtered == SecretFilter(report)
        filteredSecrets == SecretMap(filtered)
    IN  [total |-> Len(filtered),
         critical |-> 0, high |-> 0, medium |-> 0, low |-> 0,
         vulnerabilities |-> filteredSecrets, secrets |-> filteredSecrets]

\* fixFilePath(filePath): empty segments are put in front until the path
\* has eight segments
FixFilePath(file) ==
    IF Len(file) >= 8 THEN file
    ELSE [i \in 1..(8 - Len(file)) |-> ""] \o file

\* mapToSBOMSecret(item)
MapToSBOMSecret(item) == [File |-> FixFilePath(item.File), Match |-> item.Match]

\* what becomes of axios.post: a 2xx response, another response, or an
\* error (in src/scanners/secret-detector.js the require of axios is
\* commented out, so the call always ends in the catch block)
ApiOutcomes == {"2xx", "non-2xx", "error"}

\* Mutant of the forwarding step: forwards whenever a project id is set.
SendSecretsAlways(filtered, projectId, outcome) ==
    IF projectId
    THEN [made |-> TRUE, projectId |-> projectId,
          payload |-> [i \in 1..Len(filtered) |-> MapToSBOMSecret(filtered[i])],
          outcome |-> outcome]
    ELSE [made |-> FALSE, projectId |-> projectId]

\* if (Array.isArray(filtered) && filtered.length > 0) { if (projectId)
\* await this.sendSecretsToApi(projectId, filtered) }: the record of the
\* call; sendSecretsToApi catches every error of the request
SendSecrets(filtered, projectId, outcome) ==
    IF Len(filtered) > 0 /\ projectId
    THEN [made |-> TRUE, projectId |-> projectId,
          payload |-> [i \in 1..Len(filtered) |-> MapToSBOMSecret(filtered[i])],
          outcome |-> outcome]
    ELSE [made |-> FALSE, projectId |-> projectId]

(***************************************************************************)
(* NTUSecurityOrchestrator (src/index.js).                                 *)
(***************************************************************************)
\* getInput(name, defaultValue): process.env[...] || defaultValue
GetInput(envValue, defaultValue) ==
    IF envValue = "" THEN defaultValue ELSE envValue

\* scanResult.<field> || 0
FieldOrZero(scanResult, f) ==
    IF f \in DOMAIN scanResult THEN scanResult[f] ELSE 0

\* Mutant of aggregateResults: recomputes total from the findings list.
AggregateResultsRecount(res, scanResult) ==
    [res EXCEPT
        !.total = @ + (IF "vulnerabilities" \in DOMAIN scanResult
                       THEN Len(scanResult.vulnerabilities) ELSE 0),
        !.critical = @ + FieldOrZero(scanResult, "critical"),
        !.high = @ + FieldOrZero(scanResult, "high"),
        !.medium = @ + FieldOrZero(scanResult, "medium"),
        !.low = @ + FieldOrZero(scanResult, "low")]

\* aggregateResults(scanResult)
AggregateResults(res, scanResult) ==
    [res EXCEPT
        !.total = @ + FieldOrZero(scanResult, "total"),
        !.critical = @ + FieldOrZero(scanResult, "critical"),
        !.high = @ + FieldOrZero(scanResult, "high"),
        !.medium = @ + FieldOrZero(scanResult, "medium"),
        !.low = @ + FieldOrZero(scanResult, "low")]

\* { scanner: scanner.name, ...result }
TaggedResult(name, result) == result @@ [scanner |-> name]

\* Mutant of shouldFail: decides on the critical and high counters.
ShouldFailOnSeverity(res, exitCodeInput) ==
    IF GetInput(exitCodeInput, "1") = "0" THEN FALSE
    ELSE res.critical > 0 \/ res.high > 0

\* Mutant of shouldFail: ignores the exit-code input.
ShouldFailAlways(res, exitCodeInput) == res.total > 0

\* shouldFail()
ShouldFail(res, exitCodeInput) ==
    IF GetInput(exitCodeInput, "1") = "0" THEN FALSE
    ELSE res.total > 0

(***************************************************************************)
(* What the external tools may leave behind (inputs of the run).           *)
(***************************************************************************)
\* report files the trivy binary may have written when a scan reads them
SampleReports ==
    {EmptyFile, InvalidFile, JsonNoResults,
     JsonReport(<<ResultEntry(TRUE, TRUE, <<"CRITICAL">>)>>),
     JsonReport(<<ResultEntry(TRUE, TRUE, <<"Critical">>)>>),
     JsonReport(<<ResultEntry(FALSE, TRUE, <<"HIGH">>)>>),
     JsonReport(<<ResultEntry(TRUE, TRUE, <<"HIGH", "MEDIUM">>),
                  ResultEntry(TRUE, FALSE, <<>>)>>)}

\* findings the gitleaks binary may report
RealSecret ==
    [File |-> <<"src", "app.js">>, Match |-> <<"s", "k", "_", "l", "i", "v", "e">>]
ManifestSecret ==
    [File |-> <<"package.json">>, Match |-> <<"s", "k", "_", "l", "i", "v", "e">>]
PlaceholderSecret ==
    [File |-> <<"src", "ci.yml">>, Match |-> <<"$", "{", "A", "}">>]

\* gitleaks report files: absent, not JSON, or a JSON array of findings
SecretNoFile == [st |-> "absent", findings |-> <<>>]
SecretInvalidFile == [st |-> "invalid", findings |-> <<>>]
SecretReport(fs) == [st |-> "json", findings |-> fs]

SampleSecretReports ==
    {SecretNoFile, SecretInvalidFile, SecretReport(<<>>),
     SecretReport(<<RealSecret>>),
     SecretReport(<<ManifestSecret, RealSecret, PlaceholderSecret>>)}

\* values of the exit-code input in the environment ("" when it is not set)
ExitCodeInputs == {"", "0", "1", "2"}

\* exit codes of the gitleaks process
GitleaksExitCodes == {0, 1, 2}

(***************************************************************************)
(* run(): registration and installation.                                   *)
(***************************************************************************)
Init ==
    /\ pc = "register"
    /\ scanners = <<>>
    /\ idx = 1
    /\ binaryPath = [a \in Adapters |-> FALSE]
    /\ results = EmptyResults
    /\ apc = "idle"
    /\ target = TRUE
    /\ tmpFile = NoFile
    /\ rulesFile = FALSE
    /\ toolCalls = 0
    /\ gitleaksExit = <<>>
    /\ sbom = NoSbom
    /\ execThrew = FALSE
    /\ apiCall = NoApiCall
    /\ ret = NoRet
    /\ installLog = <<>>
    /\ scanLog = <<>>
    /\ outputs = [dotenv |-> [written |-> FALSE], json |-> [written |-> FALSE]]
    /\ comment = [outcome |-> "none"]
    /\ policy = "unread"
    /\ exitCode = 0

\* registerScanner(scanner)
RegisterScanner ==
    /\ pc = "register"
    /\ Len(scanners) < MaxScanners
    /\ \E a \in Adapters : scanners' = Append(scanners, a)
    /\ UNCHANGED <<pc, idx, binaryPath, results, apc, target, tmpFile,
                   rulesFile, toolCalls, ret, installLog, scanLog, outputs,
                   comment, policy, exitCode, gitleaksExit, sbom,
                   execThrew, apiCall>>

\* run(): registration is over, initializeScanners() begins
BeginInitialize ==
    /\ pc = "register"
    /\ pc' = "install"
    /\ idx' = 1
    /\ UNCHANGED <<scanners, binaryPath, results, apc, target, tmpFile,
                   rulesFile, toolCalls, ret, installLog, scanLog, outputs,
                   comment, policy, exitCode, gitleaksExit, sbom,
                   execThrew, apiCall>>

\* the binary paths an install() that succeeded has set; ConfigScanner
\* installs through the trivy adapter's install()
InstalledPaths(a, paths) ==
    IF a = "config" THEN [paths EXCEPT !["config"] = TRUE, !["trivy"] = TRUE]
    ELSE [paths EXCEPT ![a] = TRUE]

\* initializeScanners(): await scanner.install() resolved
InstallOk ==
    /\ pc = "install"
    /\ idx <= Len(scanners)
    /\ binaryPath' = InstalledPaths(scanners[idx], binaryPath)
    /\ installLog' = Append(installLog, "ok")
    /\ idx' = idx + 1
    /\ UNCHANGED <<pc, scanners, results, apc, target, tmpFile, rulesFile,
                   toolCalls, ret, scanLog, outputs, comment, policy, exitCode, gitleaksExit, sbom,
                   execThrew, apiCall>>

\* initializeScanners(): await scanner.install() threw; the catch block
\* logs a warning and the loop goes on
InstallFail ==
    /\ pc = "install"
    /\ idx <= Len(scanners)
    /\ installLog' = Append(installLog, "failed")
    /\ idx' = idx + 1
    /\ UNCHANGED <<pc, scanners, binaryPath, results, apc, target, tmpFile,
                   rulesFile, toolCalls, ret, scanLog, outputs, comment,
                   policy, exitCode, gitleaksExit, sbom,
                   execThrew, apiCall>>

\* Mutant of run(): runScans() begins while installs are still to be done.
BeginScansBeforeInstallsEnd ==
    /\ pc = "install"
    /\ pc' = "scan"
    /\ idx' = 1
    /\ UNCHANGED <<scanners, binaryPath, results, apc, target, tmpFile,
                   rulesFile, toolCalls, ret, installLog, scanLog, outputs,
                   comment, policy, exitCode, gitleaksExit, sbom,
                   execThrew, apiCall>>

\* initializeScanners() returns, runScans() begins
BeginScans ==
    /\ pc = "install"
    /\ idx > Len(scanners)
    /\ pc' = "scan"
    /\ idx' = 1
    /\ UNCHANGED <<scanners, binaryPath, results, apc, target, tmpFile,
                   rulesFile, toolCalls, ret, installLog, scanLog, outputs,
                   comment, policy, exitCode, gitleaksExit, sbom,
                   execThrew, apiCall>>

(***************************************************************************)
(* runScans(): the loop over this.scanners.                                *)
(***************************************************************************)
\* scanner.name
ScannerName(a) ==
    IF a = "trivy" THEN "Trivy Vulnerability Scanner"
    ELSE IF a = "secret" THEN "Secret Detector (Gitleaks)"
    ELSE "Trivy config Scanner"

\* where scan() of an adapter begins
FirstStep(a) == IF a = "secret" THEN "prepare" ELSE "validate"

\* Mutant of the loop of runScans: starts the next scan without awaiting
\* the one in flight.
ScanStartNoAwait ==
    /\ pc = "scan"
    /\ \E k \in 1..Len(scanners) :
          /\ \A j \in 1..Len(scanLog) : scanLog[j] # <<"start", k>>
          /\ \A j \in 1..(k - 1) : \E n \in 1..Len(scanLog) : scanLog[n] = <<"start", j>>
          /\ scanLog' = Append(scanLog, <<"start", k>>)
          /\ idx' = k
          /\ apc' = FirstStep(scanners[k])
    /\ \E t \in BOOLEAN : target' = t
    /\ tmpFile' = NoFile
    /\ toolCalls' = 0
    /\ gitleaksExit' = <<>>
    /\ execThrew' = FALSE
    /\ apiCall' = NoApiCall
    /\ UNCHANGED <<pc, scanners, binaryPath, results, rulesFile, ret,
                   installLog, outputs, comment, policy, exitCode, sbom>>

\* Mutant of the loop of runScans: leaves out the scanners whose install
\* failed.
ScanStartSkipsFailedInstall ==
    /\ pc = "scan"
    /\ idx <= Len(scanners)
    /\ apc = "idle"
    /\ IF installLog[idx] = "failed"
       THEN /\ idx' = idx + 1
            /\ UNCHANGED <<apc, target, tmpFile, toolCalls, scanLog>>
       ELSE /\ scanLog' = Append(scanLog, <<"start", idx>>)
            /\ apc' = FirstStep(scanners[idx])
            /\ \E t \in BOOLEAN : target' = t
            /\ tmpFile' = NoFile
            /\ toolCalls' = 0
            /\ UNCHANGED idx
    /\ gitleaksExit' = <<>>
    /\ execThrew' = FALSE
    /\ apiCall' = NoApiCall
    /\ UNCHANGED <<pc, scanners, binaryPath, results, rulesFile, ret,
                   installLog, outputs, comment, policy, exitCode, sbom>>

\* runScans(): scanner.scan(scanConfig) is invoked on the scanner at idx;
\* the loop suspends until the call settles
ScanStart ==
    /\ pc = "scan"
    /\ idx <= Len(scanners)
    /\ apc = "idle"
    /\ scanLog' = Append(scanLog, <<"start", idx>>)
    /\ apc' = FirstStep(scanners[idx])
    /\ \E t \in BOOLEAN : target' = t
    /\ tmpFile' = NoFile
    /\ toolCalls' = 0
    /\ gitleaksExit' = <<>>
    /\ execThrew' = FALSE
    /\ apiCall' = NoApiCall
    /\ UNCHANGED <<pc, scanners, idx, binaryPath, results, rulesFile, ret,
                   installLog, outputs, comment, policy, exitCode, sbom>>

\* Mutant of the body of "if (result)": counts the result, does not list it.
RecordResultNoPush(res, name, result) == AggregateResults(res, result)

\* if (result) { this.aggregateResults(result);
\*               this.results.scannerResults.push({scanner, ...result}) }
RecordResult(res, name, result) ==
    [AggregateResults(res, result) EXCEPT
        !.scannerResults = Append(@, TaggedResult(name, result))]

\* runScans(): the awaited scan() resolved with a result
ScanReturn ==
    /\ pc = "scan"
    /\ apc = "settled"
    /\ ret.kind = "value"
    /\ results' = RecordResult(results, ScannerName(scanners[idx]), ret.value)
    /\ scanLog' = Append(scanLog, <<"return", idx>>)
    /\ idx' = idx + 1
    /\ apc' = "idle"
    /\ ret' = NoRet
    /\ target' = TRUE
    /\ tmpFile' = NoFile
    /\ toolCalls' = 0
    /\ gitleaksExit' = <<>>
    /\ execThrew' = FALSE
    /\ apiCall' = NoApiCall
    /\ UNCHANGED <<pc, scanners, binaryPath, rulesFile, installLog, outputs,
                   comment, policy, exitCode, sbom>>

\* Mutant of the catch block of runScans: lists an all-zero entry for the
\* scanner whose scan failed.
CatchScanFailureListsEmpty(res, name) ==
    [res EXCEPT !.scannerResults =
         Append(@, [scanner |-> name, total |-> 0, critical |-> 0,
                    high |-> 0, medium |-> 0, low |-> 0])]

\* catch (error) { this.warning(...) }: the report after a failed scan
CatchScanFailure(res, name) == res

\* Mutant of the catch block of runScans: a failure ends the loop.
LoopAfterFailureAborts(k) == Len(scanners) + 1

\* the loop position after the catch block: the next scanner
LoopAfterFailure(k) == k + 1

\* runScans(): the awaited scan() threw
ScanFail ==
    /\ pc = "scan"
    /\ apc = "settled"
    /\ ret.kind = "error"
    /\ results' = CatchScanFailure(results, ScannerName(scanners[idx]))
    /\ scanLog' = Append(scanLog, <<"fail", idx>>)
    /\ idx' = LoopAfterFailure(idx)
    /\ apc' = "idle"
    /\ ret' = NoRet
    /\ target' = TRUE
    /\ tmpFile' = NoFile
    /\ toolCalls' = 0
    /\ gitleaksExit' = <<>>
    /\ execThrew' = FALSE
    /\ apiCall' = NoApiCall
    /\ UNCHANGED <<pc, scanners, binaryPath, rulesFile, installLog, outputs,
                   comment, policy, exitCode, sbom>>

\* runScans() returns, displayResults() begins
FinishScans ==
    /\ pc = "scan"
    /\ idx > Len(scanners)
    /\ apc = "idle"
    /\ pc' = "display"
    /\ UNCHANGED <<scanners, idx, binaryPath, results, apc, target, tmpFile,
                   rulesFile, toolCalls, ret, installLog, scanLog, outputs,
                   comment, policy, exitCode, gitleaksExit, sbom,
                   execThrew, apiCall>>

(***************************************************************************)
(* TrivyScanner.scan (src/scanners/trivy.js).                              *)
(***************************************************************************)
\* if (!fs.existsSync(scanTarget)) throw ...
TrivyValidate ==
    /\ apc = "validate"
    /\ scanners[idx] = "trivy"
    /\ IF target
       THEN apc' = "exec" /\ UNCHANGED ret
       ELSE apc' = "settled" /\ ret' = Threw("Scan target does not exist")
    /\ UNCHANGED <<pc, scanners, idx, binaryPath, results, target, tmpFile,
                   rulesFile, toolCalls, installLog, scanLog, outputs,
                   comment, policy, exitCode, gitleaksExit, sbom,
                   execThrew, apiCall>>

\* execSync(command): the trivy binary runs and may write the output file;
\* an error of the call is logged and ignored
TrivyExec ==
    /\ apc = "exec"
    /\ scanners[idx] = "trivy"
    /\ toolCalls' = toolCalls + 1
    /\ \E f \in SampleReports \cup {NoFile} : tmpFile' = f
    /\ \E threw \in BOOLEAN : execThrew' = threw
    /\ apc' = "read"
    /\ UNCHANGED <<pc, scanners, idx, binaryPath, results, target, rulesFile,
                   ret, installLog, scanLog, outputs, comment, policy,
                   exitCode, gitleaksExit, sbom,
                   apiCall>>

\* Mutant of the end of scan(): an output file that cannot be parsed makes
\* the scan fail.
TrivyReadPropagatesParseError ==
    /\ apc = "read"
    /\ scanners[idx] = "trivy"
    /\ IF tmpFile.st = "absent"
       THEN /\ ret' = Threw("Trivy did not produce output file")
            /\ UNCHANGED tmpFile
       ELSE IF tmpFile.st \in {"empty", "invalid"} \/ ~tmpFile.hasResults
       THEN /\ ret' = Threw("Failed to parse Trivy results")
            /\ UNCHANGED tmpFile
       ELSE /\ ret' = Returned(TrivyParseResults(tmpFile))
            /\ \E unlinked \in BOOLEAN :
                  tmpFile' = IF unlinked THEN NoFile ELSE tmpFile
    /\ apc' = "settled"
    /\ UNCHANGED <<pc, scanners, idx, binaryPath, results, target, rulesFile,
                   toolCalls, gitleaksExit, installLog, scanLog, outputs,
                   comment, policy, exitCode, sbom,
                   execThrew, apiCall>>

\* Mutant of scan(): an error of execSync makes the scan fail.
TrivyReadFailsOnExecError ==
    /\ apc = "read"
    /\ scanners[idx] = "trivy"
    /\ IF tmpFile.st = "absent" \/ execThrew
       THEN /\ ret' = Threw("Trivy did not produce output file")
            /\ UNCHANGED tmpFile
       ELSE /\ ret' = Returned(TrivyParseResults(tmpFile))
            /\ \E unlinked \in BOOLEAN :
                  tmpFile' = IF unlinked THEN NoFile ELSE tmpFile
    /\ apc' = "settled"
    /\ UNCHANGED <<pc, scanners, idx, binaryPath, results, target, rulesFile,
                   toolCalls, installLog, scanLog, outputs, comment, policy,
                   exitCode, gitleaksExit, sbom,
                   execThrew, apiCall>>

\* the output file is checked, parsed and unlinked (a failed unlink is
\* ignored), and the parsed set returned
TrivyRead ==
    /\ apc = "read"
    /\ scanners[idx] = "trivy"
    /\ IF tmpFile.st = "absent"
       THEN /\ ret' = Threw("Trivy did not produce output file")
            /\ UNCHANGED tmpFile
       ELSE /\ ret' = Returned(TrivyParseResults(tmpFile))
            /\ \E unlinked \in BOOLEAN :
                  tmpFile' = IF unlinked THEN NoFile ELSE tmpFile
    /\ apc' = "settled"
    /\ UNCHANGED <<pc, scanners, idx, binaryPath, results, target, rulesFile,
                   toolCalls, installLog, scanLog, outputs, comment, policy,
                   exitCode, gitleaksExit, sbom,
                   execThrew, apiCall>>

(***************************************************************************)
(* ConfigScanner.scan (src/scanners/config.js).                            *)
(***************************************************************************)
\* if (!fs.existsSync(scanTarget)) throw ...
ConfigValidate ==
    /\ apc = "validate"
    /\ scanners[idx] = "config"
    /\ IF target
       THEN apc' = "exec" /\ UNCHANGED ret
       ELSE apc' = "settled" /\ ret' = Threw("Scan target does not exist")
    /\ UNCHANGED <<pc, scanners, idx, binaryPath, results, target, tmpFile,
                   rulesFile, toolCalls, installLog, scanLog, outputs,
                   comment, policy, exitCode, gitleaksExit, sbom,
                   execThrew, apiCall>>

\* await execAsync(command): a failed command is tolerated; without a
\* binary path the command cannot run and writes nothing
ConfigExec ==
    /\ apc = "exec"
    /\ scanners[idx] = "config"
    /\ toolCalls' = toolCalls + 1
    /\ \E f \in SampleReports \cup {NoFile} :
          /\ binaryPath["config"] \/ f = NoFile
          /\ tmpFile' = f
    /\ \E threw \in BOOLEAN :
          /\ binaryPath["config"] \/ threw
          /\ execThrew' = threw
    /\ apc' = "read"
    /\ UNCHANGED <<pc, scanners, idx, binaryPath, results, target, rulesFile,
                   ret, installLog, scanLog, outputs, comment, policy,
                   exitCode, gitleaksExit, sbom,
                   apiCall>>

\* Mutant of the end of scan(): goes on to parseResults without checking
\* that the report exists.
ConfigReadParsesMissingReport ==
    /\ apc = "read"
    /\ scanners[idx] = "config"
    /\ ret' = Returned(ConfigParseResults(tmpFile))
    /\ \E unlinked \in BOOLEAN :
          tmpFile' = IF unlinked THEN NoFile ELSE tmpFile
    /\ apc' = "settled"
    /\ UNCHANGED <<pc, scanners, idx, binaryPath, results, target, rulesFile,
                   toolCalls, gitleaksExit, installLog, scanLog, outputs,
                   comment, policy, exitCode, sbom,
                   execThrew, apiCall>>

\* the report is checked, parsed and unlinked, and the parsed set returned
ConfigRead ==
    /\ apc = "read"
    /\ scanners[idx] = "config"
    /\ IF tmpFile.st = "absent"
       THEN /\ ret' = Threw("Trivy did not produce output file")
            /\ UNCHANGED tmpFile
       ELSE /\ ret' = Returned(ConfigParseResults(tmpFile))
            /\ \E unlinked \in BOOLEAN :
                  tmpFile' = IF unlinked THEN NoFile ELSE tmpFile
    /\ apc' = "settled"
    /\ UNCHANGED <<pc, scanners, idx, binaryPath, results, target, rulesFile,
                   toolCalls, installLog, scanLog, outputs, comment, policy,
                   exitCode, gitleaksExit, sbom,
                   execThrew, apiCall>>

(***************************************************************************)
(* SecretDetectorScanner.scan (src/unnamed/part_002).                      *)
(***************************************************************************)
\* createTempRulesFile(), then exec(`git config ...`): the scan target is
\* not checked; a failure of git is logged and ignored
SecretPrepare ==
    /\ apc = "prepare"
    /\ scanners[idx] = "secret"
    /\ rulesFile' = TRUE
    /\ toolCalls' = toolCalls + 1
    /\ apc' = "gitleaks"
    /\ UNCHANGED <<pc, scanners, idx, binaryPath, results, target, tmpFile,
                   ret, installLog, scanLog, outputs, comment, policy,
                   exitCode, gitleaksExit, sbom,
                   execThrew, apiCall>>

\* the two copies of runGitleaks: src/unnamed/part_002 rejects unless the
\* exit code is 0 or 1; src/scanners/secret-detector.js runs the tool with
\* ignoreReturnCode and resolves with whatever code it gave
RunGitleaksCopies == {"part_002", "secret-detector.js"}

\* whether runGitleaks of the given copy rejects on the given exit code
RunGitleaksRejects(copy, code) ==
    IF copy = "part_002" THEN code # 0 /\ code # 1 ELSE FALSE

\* runGitleaks: the gitleaks binary runs and may write the report; without
\* a binary path the command cannot run
SecretGitleaks ==
    /\ apc = "gitleaks"
    /\ scanners[idx] = "secret"
    /\ toolCalls' = toolCalls + 1
    /\ \E code \in GitleaksExitCodes, f \in SampleSecretReports,
          copy \in RunGitleaksCopies :
          /\ binaryPath["secret"] \/ (code = 2 /\ f = SecretNoFile)
          /\ tmpFile' = f
          /\ gitleaksExit' = <<code>>
          /\ IF RunGitleaksRejects(copy, code)
             THEN apc' = "settled" /\ ret' = Threw("gitleaks failed")
             ELSE apc' = "report" /\ UNCHANGED ret
    /\ UNCHANGED <<pc, scanners, idx, binaryPath, results, target, rulesFile,
                   installLog, scanLog, outputs, comment, policy, exitCode, sbom,
                   execThrew, apiCall>>

\* resolve(report.length ? report : "No secrets detected.")
CheckReportValue(findings) ==
    IF Len(findings) > 0 THEN [array |-> TRUE, items |-> findings]
    ELSE [array |-> FALSE, items |-> <<>>]

\* checkReport, the filters, the clean-up and the returned set; a rejected
\* checkReport leaves scan() through its catch block, before the clean-up
SecretRead ==
    /\ apc = "report"
    /\ scanners[idx] = "secret"
    /\ IF tmpFile.st = "absent"
       THEN /\ ret' = Threw("ENOENT")
            /\ UNCHANGED <<tmpFile, rulesFile, apiCall>>
       ELSE IF tmpFile.st = "invalid"
       THEN /\ ret' = Threw("Invalid JSON in gitleaks report.")
            /\ UNCHANGED <<tmpFile, rulesFile, apiCall>>
       ELSE /\ LET result == CheckReportValue(tmpFile.findings)
                   report == IF result.array THEN result.items ELSE <<>>
               IN  /\ ret' = Returned(SecretSet(report))
                   /\ \E projectId \in BOOLEAN, o \in ApiOutcomes :
                         apiCall' = SendSecrets(SecretFilter(report), projectId, o)
            /\ rulesFile' = FALSE
            /\ tmpFile' = SecretNoFile
    /\ apc' = "settled"
    /\ UNCHANGED <<pc, scanners, idx, binaryPath, results, target, toolCalls,
                   installLog, scanLog, outputs, comment, policy, exitCode,
                   gitleaksExit, sbom, execThrew>>

(***************************************************************************)
(* run(): display, outputs, comment, decision.                             *)
(***************************************************************************)
\* Mutant of displayResults: the breakdown is consumed while it is logged.
DisplayResultsDrainsBreakdown ==
    /\ pc = "display"
    /\ results' = [results EXCEPT !.scannerResults = <<>>]
    /\ pc' = "outputs"
    /\ UNCHANGED <<scanners, idx, binaryPath, apc, target, tmpFile,
                   rulesFile, toolCalls, ret, installLog, scanLog, outputs,
                   comment, policy, exitCode, gitleaksExit, sbom,
                   execThrew, apiCall>>

\* displayResults(): logs only
DisplayResults ==
    /\ pc = "display"
    /\ pc' = "outputs"
    /\ UNCHANGED <<scanners, idx, binaryPath, results, apc, target, tmpFile,
                   rulesFile, toolCalls, ret, installLog, scanLog, outputs,
                   comment, policy, exitCode, gitleaksExit, sbom,
                   execThrew, apiCall>>

\* outputData of setOutputs()
OutputData(res) ==
    [VULNERABILITIES_FOUND |-> res.total,
     CRITICAL_COUNT |-> res.critical,
     HIGH_COUNT |-> res.high,
     MEDIUM_COUNT |-> res.medium,
     LOW_COUNT |-> res.low,
     SCAN_RESULT |-> <<res.total, res.critical, res.high, res.medium, res.low>>]

\* setOutputs(): two writeFileSync calls, each in its own try/catch that
\* logs a warning when the write fails
SetOutputs ==
    /\ pc = "outputs"
    /\ \E dotenvOk \in BOOLEAN, jsonOk \in BOOLEAN :
          outputs' =
              [dotenv |-> IF dotenvOk
                          THEN [written |-> TRUE, data |-> OutputData(results)]
                          ELSE [written |-> FALSE, warned |-> TRUE],
               json |-> IF jsonOk
                        THEN [written |-> TRUE, data |-> results]
                        ELSE [written |-> FALSE, warned |-> TRUE]]
    /\ pc' = "comment"
    /\ UNCHANGED <<scanners, idx, binaryPath, results, apc, target, tmpFile,
                   rulesFile, toolCalls, ret, installLog, scanLog, comment,
                   policy, exitCode, gitleaksExit, sbom,
                   execThrew, apiCall>>

\* the status line of the merge-request comment
CommentStatus(res) ==
    IF res.critical > 0 \/ res.high > 0 THEN "VULNERABILITIES DETECTED"
    ELSE "NO CRITICAL ISSUES"

\* what becomes of the comment: no token or no merge request, posted, a
\* network error, or a response outside 2xx
CommentOutcomes == {"skipped", "posted", "network-error", "non-2xx"}

\* Mutant of postMRComment: a comment that could not be posted fails the run.
PostMRCommentFailureExits ==
    /\ pc = "comment"
    /\ \E o \in CommentOutcomes :
          /\ comment' = IF o = "skipped" THEN [outcome |-> o]
                        ELSE [outcome |-> o, status |-> CommentStatus(results),
                              total |-> results.total]
          /\ exitCode' = IF o \in {"network-error", "non-2xx"} THEN 1 ELSE exitCode
    /\ pc' = "decide"
    /\ UNCHANGED <<scanners, idx, binaryPath, results, apc, target, tmpFile,
                   rulesFile, toolCalls, gitleaksExit, sbom, ret, installLog,
                   scanLog, outputs, policy,
                   execThrew, apiCall>>

\* Mutant of postMRComment: the rejection for a response outside 2xx is not
\* caught and the run exits 1.
PostMRCommentRejectionEscapes ==
    /\ pc = "comment"
    /\ \E o \in CommentOutcomes :
          /\ comment' = IF o = "skipped" THEN [outcome |-> o]
                        ELSE [outcome |-> o, status |-> CommentStatus(results),
                              total |-> results.total]
          /\ IF o = "non-2xx"
             THEN pc' = "exited" /\ exitCode' = 1
             ELSE pc' = "decide" /\ UNCHANGED exitCode
    /\ UNCHANGED <<scanners, idx, binaryPath, results, apc, target, tmpFile,
                   rulesFile, toolCalls, gitleaksExit, sbom, ret, installLog,
                   scanLog, outputs, policy,
                   execThrew, apiCall>>

\* postMRComment(): every failure is caught and logged
PostMRComment ==
    /\ pc = "comment"
    /\ \E o \in CommentOutcomes :
          comment' = IF o = "skipped" THEN [outcome |-> o]
                     ELSE [outcome |-> o, status |-> CommentStatus(results),
                           total |-> results.total]
    /\ pc' = "decide"
    /\ UNCHANGED <<scanners, idx, binaryPath, results, apc, target, tmpFile,
                   rulesFile, toolCalls, ret, installLog, scanLog, outputs,
                   policy, exitCode, gitleaksExit, sbom,
                   execThrew, apiCall>>

\* Mutant of run(): the decision may be taken before setOutputs.
DecideFailBeforeOutputs ==
    /\ pc \in {"outputs", "decide"}
    /\ \E input \in ExitCodeInputs :
          /\ ShouldFail(results, input)
          /\ policy' = GetInput(input, "1")
    /\ exitCode' = 1
    /\ pc' = "exited"
    /\ UNCHANGED <<scanners, idx, binaryPath, results, apc, target, tmpFile,
                   rulesFile, toolCalls, ret, installLog, scanLog, outputs,
                   comment, gitleaksExit, sbom,
                   execThrew, apiCall>>

\* if (orchestrator.shouldFail()) orchestrator.setFailed(...): process.exit(1)
DecideFail ==
    /\ pc = "decide"
    /\ \E input \in ExitCodeInputs :
          /\ ShouldFail(results, input)
          /\ policy' = GetInput(input, "1")
    /\ exitCode' = 1
    /\ pc' = "exited"
    /\ UNCHANGED <<scanners, idx, binaryPath, results, apc, target, tmpFile,
                   rulesFile, toolCalls, ret, installLog, scanLog, outputs,
                   comment, gitleaksExit, sbom,
                   execThrew, apiCall>>

\* else orchestrator.info('Security scan completed successfully')
DecidePass ==
    /\ pc = "decide"
    /\ \E input \in ExitCodeInputs :
          /\ ~ShouldFail(results, input)
          /\ policy' = GetInput(input, "1")
    /\ pc' = "done"
    /\ UNCHANGED <<scanners, idx, binaryPath, results, apc, target, tmpFile,
                   rulesFile, toolCalls, ret, installLog, scanLog, outputs,
                   comment, exitCode, gitleaksExit, sbom,
                   execThrew, apiCall>>

\* the steps of run() in which a statement outside every try block of the
\* orchestrator runs: the constructor and the registrations, the preamble
\* of runScans, displayResults, setOutputs and the call of postMRComment
UnguardedSteps == {"register", "install", "display", "outputs", "comment"}

\* catch (error) of run(): an exception escaped one of the steps;
\* console.error, then process.exit(1)
RunCatch ==
    /\ pc \in UnguardedSteps
    /\ pc = "install" => idx > Len(scanners)
    /\ pc' = "crashed"
    /\ exitCode' = 1
    /\ UNCHANGED <<scanners, idx, binaryPath, results, apc, target, tmpFile,
                   rulesFile, toolCalls, gitleaksExit, sbom, ret, installLog,
                   scanLog, outputs, comment, policy,
                   execThrew, apiCall>>

Next ==
    \/ RegisterScanner
    \/ BeginInitialize
    \/ InstallOk
    \/ InstallFail
    \/ BeginScans
    \/ ScanStart
    \/ TrivyValidate
    \/ TrivyExec
    \/ TrivyRead
    \/ ConfigValidate
    \/ ConfigExec
    \/ ConfigRead
    \/ SecretPrepare
    \/ SecretGitleaks
    \/ SecretRead
    \/ ScanReturn
    \/ ScanFail
    \/ FinishScans
    \/ DisplayResults
    \/ SetOutputs
    \/ PostMRComment
    \/ DecideFail
    \/ DecidePass
    \/ RunCatch

Spec == Init /\ [][Next]_vars

\* run() under the event loop: every awaited call (install, the tool of a
\* scan, the comment request) settles, and the continuation of a settled
\* call is run
SpecLive == Init /\ [][Next]_vars /\ WF_vars(Next)

(***************************************************************************)
(* SpecParse: TrivyScanner.parseResults on every report within the bounds. *)
(***************************************************************************)
\* one element of the Results array
ParseEntries ==
    {ResultEntry(TRUE, FALSE, <<>>)}
        \cup {ResultEntry(TRUE, TRUE, items) :
                items \in SeqsUpTo(SevStrings \cup {NullEntry}, MaxParseVulns)}

ParseReports ==
    {NoFile, EmptyFile, InvalidFile, JsonNoResults}
        \cup {JsonReport(rs) : rs \in SeqsUpTo(ParseEntries, MaxParseResults)}

InitParse ==
    /\ pc = "parse"
    /\ tmpFile \in ParseReports
    /\ scanners = <<>>
    /\ idx = 1
    /\ binaryPath = [a \in Adapters |-> FALSE]
    /\ results = EmptyResults
    /\ apc = "idle"
    /\ target = TRUE
    /\ rulesFile = FALSE
    /\ toolCalls = 0
    /\ gitleaksExit = <<>>
    /\ sbom = NoSbom
    /\ execThrew = FALSE
    /\ apiCall = NoApiCall
    /\ ret = NoRet
    /\ installLog = <<>>
    /\ scanLog = <<>>
    /\ outputs = [dotenv |-> [written |-> FALSE], json |-> [written |-> FALSE]]
    /\ comment = [outcome |-> "none"]
    /\ policy = "unread"
    /\ exitCode = 0

\* const results = this.parseResults(jsonOutputPath)
ParseStep ==
    /\ pc = "parse"
    /\ ret' = Returned(TrivyParseResults(tmpFile))
    /\ pc' = "parsed"
    /\ UNCHANGED <<scanners, idx, binaryPath, results, apc, target, tmpFile,
                   rulesFile, toolCalls, installLog, scanLog, outputs,
                   comment, policy, exitCode, gitleaksExit, sbom,
                   execThrew, apiCall>>

SpecParse == InitParse /\ [][ParseStep]_vars

(***************************************************************************)
(* SpecConfigParse: ConfigScanner.parseResults on every report within the  *)
(* bounds.                                                                 *)
(***************************************************************************)
\* severity strings of the misconfigurations drawn for parseResults
ConfigSevStrings == {"CRITICAL", "LOW", "Critical", Undefined}

\* one element of the Results array: with or without a Target, with or
\* without a Misconfigurations array
ConfigParseEntries ==
    {ResultEntry(t, FALSE, <<>>) : t \in BOOLEAN}
        \cup {ResultEntry(t, TRUE, items) :
                t \in BOOLEAN,
                items \in SeqsUpTo(ConfigSevStrings \cup {NullEntry}, MaxParseVulns)}

ConfigParseReports ==
    {NoFile, EmptyFile, InvalidFile, JsonNoResults}
        \cup {JsonReport(rs) : rs \in SeqsUpTo(ConfigParseEntries, MaxParseResults)}

InitConfigParse ==
    /\ pc = "configParse"
    /\ tmpFile \in ConfigParseReports
    /\ scanners = <<>>
    /\ idx = 1
    /\ binaryPath = [a \in Adapters |-> FALSE]
    /\ results = EmptyResults
    /\ apc = "idle"
    /\ target = TRUE
    /\ rulesFile = FALSE
    /\ toolCalls = 0
    /\ gitleaksExit = <<>>
    /\ sbom = NoSbom
    /\ execThrew = FALSE
    /\ apiCall = NoApiCall
    /\ ret = NoRet
    /\ installLog = <<>>
    /\ scanLog = <<>>
    /\ outputs = [dotenv |-> [written |-> FALSE], json |-> [written |-> FALSE]]
    /\ comment = [outcome |-> "none"]
    /\ policy = "unread"
    /\ exitCode = 0

\* const results = this.parseResults(reportPath)
ConfigParseStep ==
    /\ pc = "configParse"
    /\ ret' = Returned(ConfigParseResults(tmpFile))
    /\ pc' = "configParsed"
    /\ UNCHANGED <<scanners, idx, binaryPath, results, apc, target, tmpFile,
                   rulesFile, toolCalls, installLog, scanLog, outputs,
                   comment, policy, exitCode, gitleaksExit, sbom,
                   execThrew, apiCall>>

SpecConfigParse == InitConfigParse /\ [][ConfigParseStep]_vars

(***************************************************************************)
(* SpecSecret: the filters and the returned set of                         *)
(* SecretDetectorScanner.scan on every gitleaks report within the bounds.  *)
(***************************************************************************)
\* item.File of a finding, as path segments
SecretFiles ==
    {<<"src", "app.js">>, <<"package.json">>, <<"src", "README.md">>,
     <<"src", "my-package.json">>, <<"node_modules", "x.js">>,
     <<"old_node_modules", "x.js">>}

\* item.Match of a finding, as characters
SecretMatches ==
    {<<"s", "k", "_", "l", "i", "v", "e">>,
     <<"$", "{", "A", "}">>,
     <<"$", "A", "B">>,
     <<"p", "w", "$", "A", "x">>,
     <<"$", "a">>}

SecretFindings == {[File |-> f, Match |-> m] : f \in SecretFiles, m \in SecretMatches}

InitSecret ==
    /\ pc = "secretFilter"
    /\ \E fs \in SeqsUpTo(SecretFindings, MaxSecretFindings) :
          tmpFile = SecretReport(fs)
    /\ scanners = <<>>
    /\ idx = 1
    /\ binaryPath = [a \in Adapters |-> FALSE]
    /\ results = EmptyResults
    /\ apc = "idle"
    /\ target = TRUE
    /\ rulesFile = FALSE
    /\ toolCalls = 0
    /\ gitleaksExit = <<>>
    /\ sbom = NoSbom
    /\ execThrew = FALSE
    /\ apiCall = NoApiCall
    /\ ret = NoRet
    /\ installLog = <<>>
    /\ scanLog = <<>>
    /\ outputs = [dotenv |-> [written |-> FALSE], json |-> [written |-> FALSE]]
    /\ comment = [outcome |-> "none"]
    /\ policy = "unread"
    /\ exitCode = 0

\* scan(): from the resolved checkReport to the returned set
SecretFilterStep ==
    /\ pc = "secretFilter"
    /\ LET result == CheckReportValue(tmpFile.findings)
           report == IF result.array THEN result.items ELSE <<>>
       IN  /\ ret' = Returned(SecretSet(report))
           /\ \E projectId \in BOOLEAN, o \in ApiOutcomes :
                 apiCall' = SendSecrets(SecretFilter(report), projectId, o)
    /\ pc' = "secretFiltered"
    /\ UNCHANGED <<scanners, idx, binaryPath, results, apc, target, tmpFile,
                   rulesFile, toolCalls, gitleaksExit, installLog, scanLog,
                   outputs, comment, policy, exitCode, sbom, execThrew>>

SpecSecret == InitSecret /\ [][SecretFilterStep]_vars

(***************************************************************************)
(* SpecSbom: CdxgenScanner.scan (src/test-local.js), the two-stage SBOM    *)
(* adapter.  The steps of the trivy adapter's scan() it delegates to are   *)
(* TrivyValidate, TrivyExec and TrivyRead; scanners = <<"trivy">> and      *)
(* idx = 1 designate the trivy adapter as the object those steps run on.   *)
(***************************************************************************)
\* the two copies of CdxgenScanner.scan, named by their first line: the
\* first wraps the body in try/catch and falls back, the second has no
\* try (its "catch" is a method of the class, never called)
SbomCopies == {"test-local.js:193", "test-local.js:623"}

SbomHasFallback(copy) == copy = "test-local.js:193"

\* a vulnerability entry that survives .filter(v => v)
SbomTruthy(v) == v # NullEntry

\* the set the first copy builds from the stdout of `trivy sbom`
SbomCountSet(f) ==
    LET vulns == SelectSeq(IF f.hasResults THEN AllItems(f.Results) ELSE <<>>,
                           SbomTruthy)
        sev(v) == IF v = Undefined THEN "UNKNOWN" ELSE ToUpperCase(v)
        n(level) == Cardinality({i \in 1..Len(vulns) : sev(vulns[i]) = level})
    IN  [total |-> Len(vulns),
         critical |-> n("CRITICAL"), high |-> n("HIGH"),
         medium |-> n("MEDIUM"), low |-> n("LOW"),
         vulnerabilities |-> [i \in 1..Len(vulns) |-> [severity |-> vulns[i]]],
         sbomPath |-> "sbom.json"]

\* the set the second copy builds from the result of trivyScanner.scan
SbomWrap(v) ==
    [total |-> v.total, critical |-> v.critical, high |-> v.high,
     medium |-> v.medium, low |-> v.low,
     vulnerabilities |-> v.vulnerabilities, sbomPath |-> "sbom.json"]

\* what `trivy sbom` of the first copy leaves on stdout: nothing with an
\* error, nothing, text that is not JSON, or a JSON report
SbomStdouts == {NoFile, EmptyFile, InvalidFile} \cup {f \in SampleReports : f.st = "json"}

\* config.scanType as scan(config) receives it: absent, or the kind the
\* caller configured
SbomScanTypes == {"", "fs", "sbom"}

\* the configuration object handed to trivyScanner.scan; none before the call
SbomNoConfig == [scanTarget |-> "", scanType |-> ""]

\* trivyScanner.scan(config) of the catch block: the caller's object
SbomOriginalConfig(call) ==
    [scanTarget |-> "config.scanTarget", scanType |-> call.scanType]

\* const scanType = config.scanType || 'sbom';
\* trivyScanner.scan({scanTarget: sbomPath, scanType: scanType, severity})
SbomArtifactConfig(call) ==
    [scanTarget |-> "sbom.json",
     scanType |-> IF call.scanType = "" THEN "sbom" ELSE call.scanType]

InitSbom ==
    /\ pc = "sbomScan"
    /\ \E c \in SbomCopies, t \in BOOLEAN, k \in SbomScanTypes :
          sbom = [copy |-> c, at |-> "generate", target |-> t, scanType |-> k,
                  stage1 |-> "pending", delegate |-> "none",
                  passed |-> SbomNoConfig, outcome |-> NoRet]
    /\ scanners = <<"trivy">>
    /\ idx = 1
    /\ \E installed \in BOOLEAN :
          binaryPath = [a \in Adapters |-> a = "trivy" /\ installed]
    /\ results = EmptyResults
    /\ apc = "idle"
    /\ target = TRUE
    /\ tmpFile = NoFile
    /\ rulesFile = FALSE
    /\ toolCalls = 0
    /\ gitleaksExit = <<>>
    /\ execThrew = FALSE
    /\ apiCall = NoApiCall
    /\ ret = NoRet
    /\ installLog = <<>>
    /\ scanLog = <<>>
    /\ outputs = [dotenv |-> [written |-> FALSE], json |-> [written |-> FALSE]]
    /\ comment = [outcome |-> "none"]
    /\ policy = "unread"
    /\ exitCode = 0

\* the error of stage 1 leaves scan(): the catch block of the first copy
\* calls trivyScanner.scan(config); the second copy has nothing to catch it
SbomAfterFailure(call, msg) ==
    IF SbomHasFallback(call.copy)
    THEN [call EXCEPT !.at = "delegate", !.delegate = "original",
                      !.passed = SbomOriginalConfig(call)]
    ELSE [call EXCEPT !.at = "done", !.outcome = Threw(msg)]

\* stage 1, generateSBOM(targetDir): the target is checked, cdxgen runs
\* (its exit code is ignored) and the output file is checked
SbomGenerate ==
    /\ pc = "sbomScan"
    /\ sbom.at = "generate"
    /\ \E created \in BOOLEAN :
          LET ok == sbom.target /\ created
              msg == IF sbom.target
                     THEN "CDXgen did not generate SBOM output file"
                     ELSE "Target directory does not exist"
              next == IF ok
                      THEN [sbom EXCEPT !.stage1 = "ok", !.at = "stage2"]
                      ELSE SbomAfterFailure([sbom EXCEPT !.stage1 = "failed"], msg)
          IN  /\ sbom' = next
              /\ toolCalls' = IF sbom.target THEN toolCalls + 1 ELSE toolCalls
              /\ IF next.at = "delegate"
                 THEN apc' = "validate" /\ target' = sbom.target
                 ELSE UNCHANGED <<apc, target>>
    /\ UNCHANGED <<pc, scanners, idx, binaryPath, results, tmpFile, rulesFile,
                   gitleaksExit, ret, installLog, scanLog, outputs, comment,
                   policy, exitCode,
                   execThrew, apiCall>>

\* stage 2 of the first copy: trivy is installed if it is not, `trivy sbom`
\* runs on the artifact and its stdout is parsed in place; every error
\* reaches the catch block, which calls trivyScanner.scan(config)
SbomStage2Inline ==
    /\ pc = "sbomScan"
    /\ sbom.at = "stage2"
    /\ SbomHasFallback(sbom.copy)
    /\ \E installOk \in BOOLEAN, out \in SbomStdouts :
          LET ran == binaryPath["trivy"] \/ installOk
              failed == ~ran \/ out.st \in {"absent", "invalid"}
          IN  /\ binaryPath' = IF ran THEN InstalledPaths("trivy", binaryPath)
                                       ELSE binaryPath
              /\ toolCalls' = IF ran THEN toolCalls + 1 ELSE toolCalls
              /\ IF failed
                 THEN /\ sbom' = [sbom EXCEPT !.at = "delegate",
                                              !.delegate = "original",
                                              !.passed = SbomOriginalConfig(sbom)]
                      /\ apc' = "validate"
                      /\ target' = sbom.target
                 ELSE /\ sbom' = [sbom EXCEPT
                                     !.at = "done",
                                     !.outcome =
                                         Returned(IF out.st = "empty"
                                                  THEN TrivyEmptySet
                                                           @@ [sbomPath |-> "sbom.json"]
                                                  ELSE SbomCountSet(out))]
                      /\ UNCHANGED <<apc, target>>
    /\ UNCHANGED <<pc, scanners, idx, results, tmpFile, rulesFile,
                   gitleaksExit, ret, installLog, scanLog, outputs, comment,
                   policy, exitCode,
                   execThrew, apiCall>>

\* stage 2 of the second copy: trivyScanner.scan({scanTarget: sbomPath, ...})
SbomStage2Delegate ==
    /\ pc = "sbomScan"
    /\ sbom.at = "stage2"
    /\ ~SbomHasFallback(sbom.copy)
    /\ sbom' = [sbom EXCEPT !.at = "delegate", !.delegate = "artifact",
                            !.passed = SbomArtifactConfig(sbom)]
    /\ apc' = "validate"
    /\ target' = TRUE
    /\ UNCHANGED <<pc, scanners, idx, binaryPath, results, tmpFile, rulesFile,
                   toolCalls, gitleaksExit, ret, installLog, scanLog, outputs,
                   comment, policy, exitCode,
                   execThrew, apiCall>>

\* the awaited trivyScanner.scan settled: the first copy returns its value
\* or lets its error through; the second wraps the value, and lets an
\* error through
SbomSettle ==
    /\ pc = "sbomScan"
    /\ sbom.at = "delegate"
    /\ apc = "settled"
    /\ sbom' = [sbom EXCEPT
                   !.at = "done",
                   !.outcome = IF sbom.delegate = "artifact" /\ ret.kind = "value"
                               THEN Returned(SbomWrap(ret.value))
                               ELSE ret]
    /\ pc' = "sbomScanned"
    /\ UNCHANGED <<scanners, idx, binaryPath, results, apc, target, tmpFile,
                   rulesFile, toolCalls, gitleaksExit, ret, installLog,
                   scanLog, outputs, comment, policy, exitCode,
                   execThrew, apiCall>>

NextSbom ==
    \/ SbomGenerate
    \/ SbomStage2Inline
    \/ SbomStage2Delegate
    \/ TrivyValidate
    \/ TrivyExec
    \/ TrivyRead
    \/ SbomSettle

SpecSbom == InitSbom /\ [][NextSbom]_vars

(***************************************************************************)
(* SpecAggregate: aggregateResults on every finding set within the bounds. *)
(***************************************************************************)
\* finding sets: any of the five counters may be missing
FindingSets ==
    UNION {{counts @@ [vulnerabilities |-> findings] :
               counts \in [D -> 0..MaxCount],
               findings \in SeqsUpTo({"finding"}, MaxFindings)} :
           D \in SUBSET CounterFields}

InitAggregate ==
    /\ pc = "aggregate"
    /\ \E a \in 0..MaxCount, b \in 0..MaxCount :
          results = [total |-> a, critical |-> b, high |-> a, medium |-> b,
                     low |-> a, scannerResults |-> <<>>]
    /\ \E fs \in FindingSets : ret = Returned(fs)
    /\ scanners = <<>>
    /\ idx = 1
    /\ binaryPath = [a \in Adapters |-> FALSE]
    /\ apc = "idle"
    /\ target = TRUE
    /\ tmpFile = NoFile
    /\ rulesFile = FALSE
    /\ toolCalls = 0
    /\ gitleaksExit = <<>>
    /\ sbom = NoSbom
    /\ execThrew = FALSE
    /\ apiCall = NoApiCall
    /\ installLog = <<>>
    /\ scanLog = <<>>
    /\ outputs = [dotenv |-> [written |-> FALSE], json |-> [written |-> FALSE]]
    /\ comment = [outcome |-> "none"]
    /\ policy = "unread"
    /\ exitCode = 0

\* this.aggregateResults(result)
AggregateStep ==
    /\ pc = "aggregate"
    /\ results' = AggregateResults(results, ret.value)
    /\ pc' = "aggregated"
    /\ UNCHANGED <<scanners, idx, binaryPath, apc, target, tmpFile, rulesFile,
                   toolCalls, ret, installLog, scanLog, outputs, comment,
                   policy, exitCode, gitleaksExit, sbom,
                   execThrew, apiCall>>

SpecAggregate == InitAggregate /\ [][AggregateStep]_vars

(***************************************************************************)
(* Properties.                                                             *)
(***************************************************************************)
\* runScans() has returned
RunScansOver == pc \in {"display", "outputs", "comment", "decide", "done", "exited"}

\* how often scan() was invoked on the k-th registered scanner
StartCount(k) ==
    Cardinality({n \in 1..Len(scanLog) : scanLog[n] = <<"start", k>>})

\* the scan of the k-th registered scanner has ended with event e
Ended(k, e) == \E n \in 1..Len(scanLog) : scanLog[n] = <<e, k>>

RECURSIVE SumField(_, _)
SumField(entries, f) ==
    IF entries = <<>> THEN 0
    ELSE (IF f \in DOMAIN Head(entries) THEN Head(entries)[f] ELSE 0)
             + SumField(Tail(entries), f)

\* C1: with the exit-code policy '0', shouldFail() is false for every
\* consolidated report, whatever its total, and a run decided under that
\* policy does not exit 1.
C1_AdvisoryPolicyNeverFails ==
    /\ ~ShouldFail(results, "0")
    /\ policy = "0" => (pc = "done" /\ exitCode = 0)

C1_Witness == policy = "0" /\ pc = "done" /\ results.total > 0

\* C2: with any exit-code policy other than '0' (the default '1' included),
\* shouldFail() is true exactly when report.total > 0, whatever the four
\* severity counters hold, and the run exits 1 exactly in that case.
C2_FailsIffTotalPositive ==
    /\ \A input \in ExitCodeInputs \ {"0"} :
          /\ ShouldFail(results, input) = (results.total > 0)
          /\ \A c \in 0..1, h \in 0..1 :
                ShouldFail([results EXCEPT !.critical = c, !.high = h,
                                           !.medium = c, !.low = h], input)
                    = (results.total > 0)
    /\ policy \notin {"unread", "0"} => ((exitCode = 1) = (results.total > 0))

C2_Witness ==
    /\ policy = "1"
    /\ pc = "exited"
    /\ results.total > 0
    /\ results.critical + results.high + results.medium + results.low = 0

\* C3: aggregateResults adds the finding set's reported total, critical,
\* high, medium and low to the report's counters, a missing field adding
\* zero, and touches nothing else of the report; the length of the findings
\* list plays no part.
C3_AggregateAddsReportedCounts ==
    [][pc = "aggregate" =>
          /\ \A f \in CounterFields :
                results'[f] = results[f]
                    + (IF f \in DOMAIN ret.value THEN ret.value[f] ELSE 0)
          /\ results'.scannerResults = results.scannerResults]_vars

C3_Witness ==
    /\ pc = "aggregated"
    /\ "critical" \notin DOMAIN ret.value
    /\ "total" \in DOMAIN ret.value
    /\ ret.value.total = 1
    /\ Len(ret.value.vulnerabilities) = 0
    /\ results.total = 2
    /\ results.critical = 1

\* C4: in every state of a run each of the five consolidated counters is
\* the sum of that field over the entries of scannerResults.
C4_CountersAreSumOfListed ==
    \A f \in CounterFields : results[f] = SumField(results.scannerResults, f)

C4_Witness ==
    /\ RunScansOver
    /\ Len(results.scannerResults) = 2
    /\ results.scannerResults[1].total > 0
    /\ results.scannerResults[2].total > 0
    /\ results.total > results.critical + results.high + results.medium + results.low

\* C5: scan() is invoked at most once on every registered scanner, and once
\* runScans has returned it has been invoked exactly once on each of them
\* and each invocation has returned or failed, whatever installs and scans
\* failed.
C5_EveryScannerScannedOnce ==
    /\ \A k \in 1..Len(scanners) : StartCount(k) <= 1
    /\ RunScansOver =>
          /\ Len(installLog) = Len(scanners)
          /\ \A k \in 1..Len(scanners) :
                /\ StartCount(k) = 1
                /\ Ended(k, "return") \/ Ended(k, "fail")

C5_Witness ==
    /\ RunScansOver
    /\ Len(scanners) = 2
    /\ installLog[1] = "failed"
    /\ Ended(1, "fail")
    /\ Ended(2, "return")

\* C6: no step of runScans other than the handling of a result that scan()
\* returned changes the consolidated report; in particular a scan that
\* fails leaves the five counters and scannerResults as they were.
C6_FailedScanLeavesReport ==
    [][(pc = "scan" /\ ~(apc = "settled" /\ ret.kind = "value"))
          => results' = results]_vars

C6_Witness ==
    /\ pc = "scan"
    /\ Len(scanLog) = 4
    /\ scanLog[2] = <<"return", 1>>
    /\ scanLog[4] = <<"fail", 2>>
    /\ results.total > 0
    /\ Len(results.scannerResults) = 1

\* C7 as claimed: a scanner whose install() failed is never scanned.
C7_Claimed_FailedInstallNotScanned ==
    \A k \in 1..Len(installLog) : installLog[k] = "failed" => StartCount(k) = 0

\* C7, amended: a failed install() removes nothing from this.scanners; once
\* runScans has returned, scan() has been invoked exactly once on every
\* scanner whose install failed, as on those whose install succeeded.
C7_FailedInstallStillScanned ==
    RunScansOver =>
        \A k \in 1..Len(scanners) :
            /\ installLog[k] \in {"ok", "failed"}
            /\ StartCount(k) = 1

C7_Witness ==
    /\ RunScansOver
    /\ \E k \in 1..Len(scanners) :
          /\ installLog[k] = "failed"
          /\ Ended(k, "return")
    /\ \E k \in 1..Len(scanners) :
          /\ installLog[k] = "ok"
          /\ StartCount(k) = 1

\* C8: the scan log is start 1, end 1, start 2, end 2, ...: a scan starts
\* only when its predecessor has returned or failed and its result is in the
\* report, at most one scan is in flight, and scannerResults lists the
\* returned results in registration order.
C8_ScansSequentialInOrder ==
    /\ \A n \in 1..Len(scanLog) :
          IF n % 2 = 1
          THEN scanLog[n] = <<"start", (n + 1) \div 2>>
          ELSE scanLog[n] \in {<<"return", n \div 2>>, <<"fail", n \div 2>>}
    /\ (apc # "idle") = (Len(scanLog) % 2 = 1)
    /\ LET returned == {k \in 1..Len(scanners) : Ended(k, "return")}
       IN  /\ Len(results.scannerResults) = Cardinality(returned)
           /\ \A i \in 1..Len(results.scannerResults) :
                 \E k \in returned :
                    /\ Cardinality({j \in returned : j < k}) = i - 1
                    /\ results.scannerResults[i].scanner = ScannerName(scanners[k])

C8_Witness ==
    /\ Len(scanLog) = 4
    /\ Len(results.scannerResults) = 2
    /\ results.scannerResults[1].scanner # results.scannerResults[2].scanner

\* C9 as claimed: a scan invokes an external tool only when the target
\* exists, and a scan of a missing target has ended with the
\* target-not-found error without any tool invocation.
C9_Claimed_TargetCheckedBeforeTool ==
    /\ toolCalls > 0 => target
    /\ (apc = "settled" /\ ~target) =>
          (ret = Threw("Scan target does not exist") /\ toolCalls = 0)

\* C10: the set parseResults returns has total = critical + high + medium +
\* low, and each of the four counts is the number of entries of its
\* vulnerabilities list whose severity is exactly that level.
C10_TrivyCountsMatchFindings ==
    pc = "parsed" =>
        LET r == ret.value
            n(level) == Cardinality({i \in 1..Len(r.vulnerabilities) :
                                        r.vulnerabilities[i].severity = level})
        IN  /\ r.total = r.critical + r.high + r.medium + r.low
            /\ r.critical = n("CRITICAL")
            /\ r.high = n("HIGH")
            /\ r.medium = n("MEDIUM")
            /\ r.low = n("LOW")

C10_Witness ==
    /\ pc = "parsed"
    /\ ret.value.total = 1
    /\ ret.value.critical = 1
    /\ Len(ret.value.vulnerabilities) = 2
    /\ ret.value.vulnerabilities[2].severity = "Critical"
    /\ Len(tmpFile.Results) = 2

\* every misconfiguration of report f carries one of the four ranked
\* severity strings
AllRanked(f) ==
    \A i \in 1..Len(f.Results) :
        \A j \in 1..Len(f.Results[i].items) :
            f.Results[i].items[j] \in {"CRITICAL", "HIGH", "MEDIUM", "LOW"}

\* C11 as claimed: for a report whose misconfigurations all carry a ranked
\* severity, the total ConfigScanner.parseResults returns is critical + high
\* + medium + low, the number of misconfigurations, whatever the number of
\* result targets.
C11_Claimed_ConfigTotalIsSeveritySum ==
    (pc = "configParsed" /\ tmpFile.st = "json" /\ AllRanked(tmpFile)) =>
        LET r == ret.value
        IN  /\ r.total = r.critical + r.high + r.medium + r.low
            /\ r.total = Len(r.misconfigurations)

\* C12: the set the secret adapter returns for a report has total equal to
\* the number N of reported findings that survive the exclusion filters,
\* its findings lists hold exactly those N findings in their reported
\* order, and critical = high = medium = low = 0.
C12_SecretTotalIsSurvivorCount ==
    pc = "secretFiltered" =>
        LET r == ret.value
            survivors == SelectSeq(tmpFile.findings, SecretKept)
        IN  /\ r.total = Len(survivors)
            /\ r.total = Cardinality({i \in 1..Len(tmpFile.findings) :
                                          SecretKept(tmpFile.findings[i])})
            /\ Len(r.vulnerabilities) = r.total
            /\ \A i \in 1..Len(survivors) :
                  /\ r.vulnerabilities[i].Match = survivors[i].Match
                  /\ r.vulnerabilities[i].File
                        = <<"", "", "", "", "", "">> \o survivors[i].File
            /\ r.secrets = r.vulnerabilities
            /\ r.critical = 0 /\ r.high = 0 /\ r.medium = 0 /\ r.low = 0

C12_Witness ==
    /\ pc = "secretFiltered"
    /\ Len(tmpFile.findings) = 2
    /\ tmpFile.findings[1].File = <<"package.json">>
    /\ ret.value.total = 1
    /\ ret.value.vulnerabilities[1].Match = <<"s", "k", "_", "l", "i", "v", "e">>

\* the text is "$" NAME or "${" NAME "}", NAME made of [A-Z0-9_]
IsPlaceholder(match) ==
    \/ /\ Len(match) >= 2
       /\ match[1] = "$"
       /\ \A i \in 2..Len(match) : match[i] \in UpperClass
    \/ /\ Len(match) >= 4
       /\ match[1] = "$" /\ match[2] = "{" /\ match[Len(match)] = "}"
       /\ \A i \in 3..(Len(match) - 1) : match[i] \in UpperClass

\* the file lies under a directory named node_modules
UnderNodeModules(file) == \E i \in 1..(Len(file) - 1) : file[i] = "node_modules"

\* the three cases of exclusion the filter is said to implement
ListedForExclusion(item) ==
    \/ Basename(item.File) \in skipFiles
    \/ UnderNodeModules(item.File)
    \/ IsPlaceholder(item.Match)

NotListedForExclusion(item) == ~ListedForExclusion(item)

\* C18 as claimed: a reported finding is excluded when its basename is a
\* deny-listed name, when it lies under node_modules, and when its matched
\* text is exactly ${NAME} or $NAME; every other finding is retained, and
\* the survivors keep the reported order.
C18_Claimed_OnlyListedCasesExcluded ==
    pc = "secretFiltered" =>
        ret.value.vulnerabilities
            = SecretMap(SelectSeq(tmpFile.findings, NotListedForExclusion))

\* C13: for a report whose findings each carry a severity string (or none),
\* a finding is counted in a bucket only when its string is exactly
\* 'CRITICAL', 'HIGH', 'MEDIUM' or 'LOW'; every other finding is counted in
\* no bucket and not in total, and every finding, counted or not, is in the
\* returned findings list, in report order.
C13_OnlyExactSeverityCounted ==
    (pc = "parsed" /\ tmpFile.st = "json" /\ tmpFile.hasResults
        /\ \A i \in 1..Len(AllItems(tmpFile.Results)) :
               AllItems(tmpFile.Results)[i] # NullEntry) =>
        LET r == ret.value
            all == AllItems(tmpFile.Results)
            n(sev) == Cardinality({i \in 1..Len(all) : all[i] = sev})
        IN  /\ r.critical = n("CRITICAL")
            /\ r.high = n("HIGH")
            /\ r.medium = n("MEDIUM")
            /\ r.low = n("LOW")
            /\ r.total = Cardinality({i \in 1..Len(all) :
                                         all[i] \in {"CRITICAL", "HIGH", "MEDIUM", "LOW"}})
            /\ Len(r.vulnerabilities) = Len(all)
            /\ \A i \in 1..Len(all) : r.vulnerabilities[i].severity = all[i]

C13_Witness ==
    /\ pc = "parsed"
    /\ Len(tmpFile.Results) = 2
    /\ tmpFile.Results[1].items = <<"Critical">>
    /\ tmpFile.Results[2].items = <<Undefined>>
    /\ ret.value.total = 0
    /\ Len(ret.value.vulnerabilities) = 2

\* C14: when the output file of the trivy binary exists but is empty, is
\* not valid JSON or has no Results array, TrivyScanner.scan does not fail:
\* it returns the empty set.
C14_UnreadableOutputGivesEmptySet ==
    [][(/\ apc = "read"
        /\ scanners[idx] = "trivy"
        /\ \/ tmpFile.st \in {"empty", "invalid"}
           \/ (tmpFile.st = "json" /\ ~tmpFile.hasResults))
          => (apc' = "settled" /\ ret' = Returned(TrivyEmptySet))]_vars

C14_Witness ==
    /\ apc = "settled"
    /\ scanners[idx] = "trivy"
    /\ tmpFile = InvalidFile
    /\ ret = Returned(TrivyEmptySet)

\* C15 as claimed: when the gitleaks report is absent or is not valid JSON,
\* SecretDetectorScanner.scan returns the all-zero set instead of failing.
C15_Claimed_SecretReportErrorRecovered ==
    [][(/\ apc = "report"
        /\ scanners[idx] = "secret"
        /\ tmpFile.st \in {"absent", "invalid"})
          => (apc' = "settled" /\ ret' = Returned(SecretSet(<<>>)))]_vars

\* C16: when no output file exists after the tool invocation,
\* TrivyScanner.scan and ConfigScanner.scan fail with the 'did not produce
\* output file' error; neither returns a set in that case.
C16_MissingOutputFails ==
    [][(/\ apc = "read"
        /\ scanners[idx] \in {"trivy", "config"}
        /\ tmpFile.st = "absent")
          => (/\ apc' = "settled"
              /\ ret' = Threw("Trivy did not produce output file"))]_vars

C16_Witness ==
    /\ apc = "settled"
    /\ scanners[idx] = "config"
    /\ ~binaryPath["config"]
    /\ toolCalls = 1
    /\ tmpFile.st = "absent"
    /\ ret = Threw("Trivy did not produce output file")

\* C17 as claimed: a scan of the secret adapter whose gitleaks process
\* exited with a code other than 0 or 1 fails, and one whose gitleaks
\* process exited with 0 or 1 is not failed for that exit code.
C17_Claimed_OnlyExitCodes01Succeed ==
    (apc = "settled" /\ gitleaksExit # <<>>) =>
        IF gitleaksExit[1] \in {0, 1}
        THEN ret # Threw("gitleaks failed")
        ELSE ret.kind = "error"

\* C19 as claimed: whenever stage 1 of CdxgenScanner.scan has failed, the
\* failure is not the outcome of scan(): the trivy adapter's scan is
\* invoked with the original configuration and target, and the outcome of
\* scan() is the outcome of that fallback scan.
C19_Claimed_Stage1FailureFallsBack ==
    sbom.stage1 = "failed" =>
        /\ sbom.delegate = "original"
        /\ target = sbom.target
        /\ sbom.at = "done" => (ret # NoRet /\ sbom.outcome = ret)

\* C20: the run ends with exit code 1 exactly when shouldFail() was true
\* at the decision step or an exception escaped a step of run(); failed
\* installs, failed scans, unwritten artifacts and an unposted comment do
\* not make it exit 1, and a run decided otherwise ends with exit code 0.
C20_ExitOneIffFailOrEscape ==
    /\ exitCode \in {0, 1}
    /\ (exitCode = 1) = (pc \in {"exited", "crashed"})
    /\ pc = "exited" => ShouldFail(results, policy)
    /\ pc = "done" => (~ShouldFail(results, policy) /\ exitCode = 0)

C20_Witness ==
    /\ pc = "done"
    /\ exitCode = 0
    /\ policy = "1"
    /\ Len(scanners) = 2
    /\ installLog[1] = "failed"
    /\ Ended(2, "fail")
    /\ ~outputs.dotenv.written
    /\ comment.outcome = "network-error"

\* the artifact holds the values of the report
DotenvHolds(a, res) ==
    /\ a.written
    /\ a.data.VULNERABILITIES_FOUND = res.total
    /\ a.data.CRITICAL_COUNT = res.critical
    /\ a.data.HIGH_COUNT = res.high
    /\ a.data.MEDIUM_COUNT = res.medium
    /\ a.data.LOW_COUNT = res.low

JsonHolds(a, res) == a.written /\ a.data = res

\* C21 as claimed: on every run the decision step fails, both artifacts
\* have been written from the final consolidated report before the exit.
C21_Claimed_BothArtifactsWritten ==
    pc = "exited" =>
        /\ DotenvHolds(outputs.dotenv, results)
        /\ JsonHolds(outputs.json, results)

\* C21, amended: on every run the decision step fails, setOutputs has run
\* before the exit: it attempted both writes, and each artifact either
\* holds the final consolidated report or its write failed and was logged
\* as a warning.
C21_ArtifactsAttemptedBeforeExit ==
    pc = "exited" =>
        /\ DotenvHolds(outputs.dotenv, results)
              \/ (~outputs.dotenv.written /\ "warned" \in DOMAIN outputs.dotenv)
        /\ JsonHolds(outputs.json, results)
              \/ (~outputs.json.written /\ "warned" \in DOMAIN outputs.json)

C21_Witness ==
    /\ pc = "exited"
    /\ results.total > 0
    /\ DotenvHolds(outputs.dotenv, results)
    /\ ~outputs.json.written
    /\ "warned" \in DOMAIN outputs.json

\* C22: whatever postMRComment did (skipped, posted, network error,
\* response outside 2xx), a run that went past it ends by the decision
\* alone: it exits 1 exactly when shouldFail() holds for its report and
\* policy, and the comment step itself leaves the exit code at 0.
C22_CommentNeverChangesExit ==
    /\ pc = "decide" => exitCode = 0
    /\ pc \in {"done", "exited"} =>
          /\ comment.outcome \in CommentOutcomes
          /\ (exitCode = 1) = ShouldFail(results, policy)

C22_Witness ==
    /\ pc = "done"
    /\ comment.outcome = "non-2xx"
    /\ results.total = 0
    /\ exitCode = 0

\* C23 as claimed: when a scan of the secret adapter ends, by a result or
\* by an error, its rules file and its report file have been deleted.
C23_Claimed_TempFilesDeleted ==
    (apc = "settled" /\ scanners[idx] = "secret") =>
        (~rulesFile /\ tmpFile.st = "absent")

\* C24: when execSync of the trivy binary threw and an output file exists,
\* TrivyScanner.scan parses the file and returns the parsed set.
C24_ExecErrorAloneNeverFails ==
    [][(/\ apc = "read"
        /\ scanners[idx] = "trivy"
        /\ execThrew
        /\ tmpFile.st # "absent")
          => (apc' = "settled" /\ ret' = Returned(TrivyParseResults(tmpFile)))]_vars

C24_Witness ==
    /\ apc = "settled"
    /\ scanners[idx] = "trivy"
    /\ execThrew
    /\ ret.kind = "value"
    /\ ret.value.total = 2

Quotes == {"'", "\""}

\* the text without one leading and one trailing quote character
Unquoted(match) ==
    LET a == IF Len(match) > 0 /\ match[1] \in Quotes THEN 2 ELSE 1
        b == IF Len(match) >= a /\ match[Len(match)] \in Quotes
             THEN Len(match) - 1 ELSE Len(match)
    IN  SubSeq(match, a, b)

\* the whole text is an optionally quoted ${NAME} or $NAME
IsWholePlaceholder(match) == IsPlaceholder(Unquoted(match))

\* the finding passes the two file filters of scan()
PassesFileFilters(item) ==
    /\ Basename(item.File) \notin skipFiles
    /\ ~IncludesNodeModules(item.File)

\* C25 as claimed: the placeholder exclusion removes a finding only when
\* its whole matched text is an optionally quoted ${NAME} or $NAME; a
\* finding that passes the file filters and whose text merely contains such
\* a sequence is retained and counted.
C25_Claimed_ContainingTextRetained ==
    pc = "secretFiltered" =>
        LET fs == tmpFile.findings
            retained == {i \in 1..Len(fs) :
                            /\ PassesFileFilters(fs[i])
                            /\ ~IsWholePlaceholder(fs[i].Match)}
        IN  /\ ret.value.total = Cardinality(retained)
            /\ \A i \in retained :
                  \E j \in 1..Len(ret.value.vulnerabilities) :
                      ret.value.vulnerabilities[j].Match = fs[i].Match

\* C26 as claimed: when CdxgenScanner.scan delegates stage 2, the delegated
\* trivy scan receives the artifact path as its target and the fixed scan
\* kind 'sbom', whatever kind the configuration names.
C26_Claimed_DelegatedKindIsSbom ==
    sbom.delegate = "artifact" =>
        /\ sbom.passed.scanTarget = "sbom.json"
        /\ sbom.passed.scanType = "sbom"

\* the steps of run() that follow runScans
AfterRunScans == {"display", "outputs", "comment", "decide"}

\* C27: once runScans has returned, the consolidated report is read-only:
\* no step of displayResults, setOutputs, postMRComment or the decision
\* changes its counters or its scannerResults.
C27_ReportReadOnlyAfterScans ==
    [][(pc \in AfterRunScans) => (results' = results)]_vars

C27_Witness ==
    /\ pc = "done"
    /\ Len(results.scannerResults) = 2
    /\ results.total > 0
    /\ outputs.json.written
    /\ outputs.json.data = results
    /\ comment.outcome = "posted"
    /\ comment.total = results.total

\* C28: in a secret scan, sendSecretsToApi is called exactly when at least
\* one finding survives the filters and a project id is configured; the
\* call carries the surviving findings, one entry each, in order; and
\* whether the call succeeds, is answered outside 2xx or fails, scan()
\* returns the same set of survivors.
C28_ForwardedIffSurvivorsAndProject ==
    pc = "secretFiltered" =>
        LET survivors == SelectSeq(tmpFile.findings, SecretKept)
        IN  /\ apiCall.made = (Len(survivors) > 0 /\ apiCall.projectId)
            /\ apiCall.made =>
                  /\ apiCall.outcome \in ApiOutcomes
                  /\ Len(apiCall.payload) = Len(survivors)
                  /\ \A i \in 1..Len(survivors) :
                        /\ apiCall.payload[i].Match = survivors[i].Match
                        /\ Basename(apiCall.payload[i].File)
                              = Basename(survivors[i].File)
            /\ ret.kind = "value"
            /\ ret.value.total = Len(survivors)
            /\ \A i \in 1..Len(survivors) :
                  ret.value.vulnerabilities[i].Match = survivors[i].Match

C28_Witness ==
    /\ pc = "secretFiltered"
    /\ Len(tmpFile.findings) = 2
    /\ apiCall.made
    /\ apiCall.outcome = "error"
    /\ Len(apiCall.payload) = 1
    /\ ret.kind = "value"
    /\ ret.value.total = 1

\* C29 as claimed: when the decision step fails the pipeline and a comment
\* was posted, the status line of the comment is 'VULNERABILITIES
\* DETECTED', never 'NO CRITICAL ISSUES'.
C29_Claimed_FailedRunCommentSaysDetected ==
    (pc = "exited" /\ comment.outcome = "posted") =>
        comment.status = "VULNERABILITIES DETECTED"

\* the place of a step of run() in the fixed order of the phases
PhaseRank(p) ==
    CASE p = "register" -> 0
      [] p = "install" -> 1
      [] p = "scan" -> 2
      [] p = "display" -> 3
      [] p = "outputs" -> 4
      [] p = "comment" -> 5
      [] p = "decide" -> 6
      [] p \in {"done", "exited"} -> 7
      [] OTHER -> 8

\* the run is over: the decision was taken, or the catch block of run()
\* ended it
Terminated == pc \in {"done", "exited", "crashed"}

====
